---------------------------- MODULE Spec2Model ----------------------------
(***************************************************************************)
(* A model of xsimd's compile-time type resolution (xsimd_traits.hpp) and  *)
(* of its generic memory kernels (xsimd_generic_memory.hpp).               *)
(*                                                                         *)
(* The library is a set of pure functions and template instantiations.     *)
(* A state of the model is one use of the library: the inputs of a call    *)
(* (drawn by Init from bounded sets), the position of the caller (pc) and  *)
(* the results of the calls made so far.  Each action is one call.         *)
(*                                                                         *)
(* Four specifications share the variables:                                *)
(*   SpecTraits   simd_traits, revert_simd_traits                          *)
(*   SpecReturn   simd_return_type                                         *)
(*   SpecExtract  kernel::extract_pair                                     *)
(*   SpecKernel   kernel::insert, kernel::store(batch_bool),               *)
(*                kernel::load_complex_aligned, store_complex_aligned      *)
(*   SpecLoad     the slow-conversion paths of load_aligned and            *)
(*                load_unaligned                                           *)
(***************************************************************************)
EXTENDS Integers, Sequences, FiniteSets

VARIABLES
    pc,      \* position of the caller: "start", then the name of the last call
    cap,     \* the configured instruction set (fixed per build)
    T1,      \* first type operand of the instantiation
    T2,      \* second type operand (simd_return_type only)
    tres,    \* simd_traits<T1>: [type, bool_type, size]
    rres,    \* revert_simd_traits<..>: [type, size]
    rtype,   \* simd_return_type<T1, T2>, NoType when substitution fails
    size,    \* batch<T, A>::size of the kernel call
    self,    \* first batch operand (a sequence of lanes)
    other,   \* second batch operand / the batch_bool operand
    idx,     \* the index operand (i of extract_pair, I of insert)
    val,     \* the scalar operand of insert
    mem,     \* the memory a load reads
    buffer,  \* the stack buffer of the call (kept for inspection)
    res,     \* result of the first call
    res2     \* result of the second call of a round trip

vars == <<pc, cap, T1, T2, tres, rres, rtype,
          size, self, other, idx, val, mem, buffer, res, res2>>

typeVars == <<cap, T1, T2, tres, rres, rtype>>
kernelVars == <<size, self, other, idx, val, mem, buffer, res, res2>>

(***************************************************************************)
(* Bounds of the model.                                                    *)
(***************************************************************************)
\* Batches may be declared at any width 1..MaxDeclaredWidth besides the
\* native widths of the configured instruction set.
MaxDeclaredWidth == 3
\* Lane values of the kernel calls are 0..MaxVal.
MaxVal == 1
\* Kernel calls run at every batch size 1..MaxSize.
MaxSize == 4

(***************************************************************************)
(* Types.  A type is a record: a scalar, a batch<elem, n>, a               *)
(* batch_bool<elem, n>, or NoType (no member `type`: substitution fails).  *)
(***************************************************************************)
Scalar(e) == [kind |-> "scalar", elem |-> e, n |-> 1]
Batch(e, n) == [kind |-> "batch", elem |-> e, n |-> n]
BatchBool(e, n) == [kind |-> "batch_bool", elem |-> e, n |-> n]
NoType == [kind |-> "none", elem |-> "", n |-> 0]

\* The scalar types of the model.  int8_t is signed char and uint8_t is
\* unsigned char; plain char is a third, distinct type.  int16_t and bool
\* stand for the types the trait map does not vectorize.  The xtl::xcomplex
\* specializations (XSIMD_ENABLE_XTL_COMPLEX) are not configured.
ScalarNames == {"int8_t", "unsigned char", "char", "int16_t", "int32_t",
                "int64_t", "float", "double", "std::complex<float>",
                "std::complex<double>", "bool"}

\* detail::is_complex<T>
is_complex(T) == T.kind = "scalar"
                 /\ T.elem \in {"std::complex<float>", "std::complex<double>"}

(***************************************************************************)
(* The capability ladder: the instruction set the build is configured for. *)
(***************************************************************************)
Caps == {"none", "sse2", "avx", "avx512", "arm7_neon", "arm8_64_neon"}

XSIMD_X86_SSE2_VERSION == 1
XSIMD_X86_AVX_VERSION == 2
XSIMD_X86_AVX512_VERSION == 3
XSIMD_ARM7_NEON_VERSION == 1
XSIMD_ARM8_64_NEON_VERSION == 2

XSIMD_X86_INSTR_SET(c) ==
    CASE c = "sse2" -> XSIMD_X86_SSE2_VERSION
      [] c = "avx" -> XSIMD_X86_AVX_VERSION
      [] c = "avx512" -> XSIMD_X86_AVX512_VERSION
      [] OTHER -> 0

XSIMD_ARM_INSTR_SET(c) ==
    CASE c = "arm7_neon" -> XSIMD_ARM7_NEON_VERSION
      [] c = "arm8_64_neon" -> XSIMD_ARM8_64_NEON_VERSION
      [] OTHER -> 0

(***************************************************************************)
(* The width macros: the #if / #elif chain of xsimd_traits.hpp.  A macro   *)
(* the chain leaves undefined has width 0 here and Defined... is FALSE.    *)
(***************************************************************************)
XSIMD_BATCH_INT8_SIZE(c) ==
    IF XSIMD_X86_INSTR_SET(c) >= XSIMD_X86_AVX512_VERSION THEN 64
    ELSE IF XSIMD_X86_INSTR_SET(c) >= XSIMD_X86_AVX_VERSION THEN 32
    ELSE IF XSIMD_X86_INSTR_SET(c) >= XSIMD_X86_SSE2_VERSION THEN 16
    ELSE IF XSIMD_ARM_INSTR_SET(c) >= XSIMD_ARM7_NEON_VERSION THEN 16
    ELSE 0

XSIMD_BATCH_INT32_SIZE(c) ==
    IF XSIMD_X86_INSTR_SET(c) >= XSIMD_X86_AVX512_VERSION THEN 16
    ELSE IF XSIMD_X86_INSTR_SET(c) >= XSIMD_X86_AVX_VERSION THEN 8
    ELSE IF XSIMD_X86_INSTR_SET(c) >= XSIMD_X86_SSE2_VERSION THEN 4
    ELSE IF XSIMD_ARM_INSTR_SET(c) >= XSIMD_ARM7_NEON_VERSION THEN 4
    ELSE 0

XSIMD_BATCH_INT64_SIZE(c) ==
    IF XSIMD_X86_INSTR_SET(c) >= XSIMD_X86_AVX512_VERSION THEN 8
    ELSE IF XSIMD_X86_INSTR_SET(c) >= XSIMD_X86_AVX_VERSION THEN 4
    ELSE IF XSIMD_X86_INSTR_SET(c) >= XSIMD_X86_SSE2_VERSION THEN 2
    ELSE IF XSIMD_ARM_INSTR_SET(c) >= XSIMD_ARM7_NEON_VERSION THEN 2
    ELSE 0

\* Mutant of XSIMD_BATCH_FLOAT_SIZE: the AVX branch keeps the SSE2 width.
XSIMD_BATCH_FLOAT_SIZE_avx_as_sse(c) ==
    IF XSIMD_X86_INSTR_SET(c) >= XSIMD_X86_AVX512_VERSION THEN 16
    ELSE IF XSIMD_X86_INSTR_SET(c) >= XSIMD_X86_AVX_VERSION THEN 4
    ELSE IF XSIMD_X86_INSTR_SET(c) >= XSIMD_X86_SSE2_VERSION THEN 4
    ELSE IF XSIMD_ARM_INSTR_SET(c) >= XSIMD_ARM7_NEON_VERSION THEN 4
    ELSE 0

XSIMD_BATCH_FLOAT_SIZE(c) ==
    IF XSIMD_X86_INSTR_SET(c) >= XSIMD_X86_AVX512_VERSION THEN 16
    ELSE IF XSIMD_X86_INSTR_SET(c) >= XSIMD_X86_AVX_VERSION THEN 8
    ELSE IF XSIMD_X86_INSTR_SET(c) >= XSIMD_X86_SSE2_VERSION THEN 4
    ELSE IF XSIMD_ARM_INSTR_SET(c) >= XSIMD_ARM7_NEON_VERSION THEN 4
    ELSE 0

XSIMD_BATCH_DOUBLE_SIZE(c) ==
    IF XSIMD_ARM_INSTR_SET(c) >= XSIMD_ARM8_64_NEON_VERSION THEN 2
    ELSE IF XSIMD_X86_INSTR_SET(c) >= XSIMD_X86_AVX512_VERSION THEN 8
    ELSE IF XSIMD_X86_INSTR_SET(c) >= XSIMD_X86_AVX_VERSION THEN 4
    ELSE IF XSIMD_X86_INSTR_SET(c) >= XSIMD_X86_SSE2_VERSION THEN 2
    ELSE 0

\* #ifdef XSIMD_BATCH_FLOAT_SIZE
DefinedFloatSize(c) == XSIMD_BATCH_FLOAT_SIZE(c) # 0
\* #ifdef XSIMD_BATCH_DOUBLE_SIZE
DefinedDoubleSize(c) == XSIMD_BATCH_DOUBLE_SIZE(c) # 0

(***************************************************************************)
(* simd_traits and revert_simd_traits.                                     *)
(***************************************************************************)
\* The primary template of simd_traits: the type itself, one lane.
simd_traits_primary(T) ==
    [type |-> T, bool_type |-> Scalar("bool"), size |-> 1]

\* A specialization of simd_traits: batch<T, N>, its batch_bool, type::size.
simd_traits_spec(e, N) ==
    [type |-> Batch(e, N), bool_type |-> BatchBool(e, N), size |-> N]

\* simd_traits<T>: the explicit specializations, in the order of the source,
\* each compiled only under the #ifdef of its width macro; any other T takes
\* the primary template.
simd_traits(c, T) ==
    IF DefinedFloatSize(c) /\ T = Scalar("int8_t")
        THEN simd_traits_spec("int8_t", XSIMD_BATCH_INT8_SIZE(c))
    ELSE IF DefinedFloatSize(c) /\ T = Scalar("unsigned char")
        THEN simd_traits_spec("unsigned char", XSIMD_BATCH_INT8_SIZE(c))
    ELSE IF DefinedFloatSize(c) /\ T = Scalar("int32_t")
        THEN simd_traits_spec("int32_t", XSIMD_BATCH_INT32_SIZE(c))
    ELSE IF DefinedFloatSize(c) /\ T = Scalar("int64_t")
        THEN simd_traits_spec("int64_t", XSIMD_BATCH_INT64_SIZE(c))
    ELSE IF DefinedFloatSize(c) /\ T = Scalar("float")
        THEN simd_traits_spec("float", XSIMD_BATCH_FLOAT_SIZE(c))
    ELSE IF DefinedFloatSize(c) /\ T = Scalar("std::complex<float>")
        THEN simd_traits_spec("std::complex<float>", XSIMD_BATCH_FLOAT_SIZE(c))
    ELSE IF DefinedDoubleSize(c) /\ T = Scalar("double")
        THEN simd_traits_spec("double", XSIMD_BATCH_DOUBLE_SIZE(c))
    ELSE IF DefinedDoubleSize(c) /\ T = Scalar("std::complex<double>")
        THEN simd_traits_spec("std::complex<double>", XSIMD_BATCH_DOUBLE_SIZE(c))
    ELSE simd_traits_primary(T)

\* simd_type<T>
simd_type(c, T) == simd_traits(c, T).type

\* Mutant of the primary template of revert_simd_traits: declared but left
\* without members, so that only the specializations are usable.
revert_simd_traits_undefined(c, V) ==
    [type |-> NoType, size |-> 0]

\* The primary template of revert_simd_traits: the type itself.
revert_simd_traits_primary(c, V) ==
    [type |-> V, size |-> simd_traits(c, V).size]

\* Mutant of a specialization of revert_simd_traits: size taken from
\* simd_traits of the batch (the primary template, 1) instead of the scalar.
revert_simd_traits_size_of_batch(c, e) ==
    [type |-> Scalar(e),
     size |-> simd_traits(c, simd_traits(c, Scalar(e)).type).size]

\* A specialization of revert_simd_traits: the scalar type, and
\* simd_traits<type>::size.

revert_simd_traits_spec(c, e) ==
    [type |-> Scalar(e), size |-> simd_traits(c, Scalar(e)).size]

\* revert_simd_traits<V>: the explicit specializations, in the order of the
\* source; any other V takes the primary template.
revert_simd_traits(c, V) ==
    IF DefinedFloatSize(c) /\ V = Batch("int8_t", XSIMD_BATCH_INT8_SIZE(c))
        THEN revert_simd_traits_spec(c, "int8_t")
    ELSE IF DefinedFloatSize(c) /\ V = Batch("unsigned char", XSIMD_BATCH_INT8_SIZE(c))
        THEN revert_simd_traits_spec(c, "unsigned char")
    ELSE IF DefinedFloatSize(c) /\ V = Batch("int32_t", XSIMD_BATCH_INT32_SIZE(c))
        THEN revert_simd_traits_spec(c, "int32_t")
    ELSE IF DefinedFloatSize(c) /\ V = Batch("int64_t", XSIMD_BATCH_INT64_SIZE(c))
        THEN revert_simd_traits_spec(c, "int64_t")
    ELSE IF DefinedFloatSize(c) /\ V = Batch("float", XSIMD_BATCH_FLOAT_SIZE(c))
        THEN revert_simd_traits_spec(c, "float")
    ELSE IF DefinedFloatSize(c)
            /\ V = Batch("std::complex<float>", XSIMD_BATCH_FLOAT_SIZE(c))
        THEN revert_simd_traits_spec(c, "std::complex<float>")
    ELSE IF DefinedDoubleSize(c) /\ V = Batch("double", XSIMD_BATCH_DOUBLE_SIZE(c))
        THEN revert_simd_traits_spec(c, "double")
    ELSE IF DefinedDoubleSize(c)
            /\ V = Batch("std::complex<double>", XSIMD_BATCH_DOUBLE_SIZE(c))
        THEN revert_simd_traits_spec(c, "std::complex<double>")
    ELSE revert_simd_traits_primary(c, V)

(***************************************************************************)
(* simd_return_type.                                                       *)
(***************************************************************************)
\* detail::simd_condition<T1, T2>
simd_condition(A, B) ==
    \/ A = B
    \/ A = Scalar("float")
    \/ A = Scalar("double")
    \/ A = Scalar("int64_t")
    \/ A = Scalar("int32_t")
    \/ A = Scalar("char")
    \/ A = Scalar("unsigned char")
    \/ is_complex(A)

\* std::enable_if<B, T>: the member `type` is T when B holds, absent otherwise.
enable_if(b, T) == IF b THEN T ELSE NoType

\* The primary template of detail::simd_return_type_impl.
simd_return_type_impl_primary(c, A, B) ==
    enable_if(simd_condition(A, B), simd_type(c, B))

\* Mutant of the <batch, batch> specialization: the result takes N1.
simd_return_type_impl_first_width(c, A, B) ==
    enable_if(simd_condition(Scalar(A.elem), Scalar(B.elem)), Batch(B.elem, A.n))

\* Mutant of the <batch, batch> specialization: the result is recomputed from
\* the trait map, as the primary template would.
simd_return_type_impl_native_width(c, A, B) ==
    enable_if(simd_condition(Scalar(A.elem), Scalar(B.elem)),
              Batch(B.elem, simd_traits(c, Scalar(B.elem)).size))

\* The specialization for <batch<T1, N1>, batch<T2, N2>>.
simd_return_type_impl_batch_batch(c, A, B) ==
    enable_if(simd_condition(Scalar(A.elem), Scalar(B.elem)), Batch(B.elem, B.n))

\* The specialization for <batch<T1, N1>, batch_bool<T2, N2>>.
simd_return_type_impl_batch_bool(c, A, B) ==
    enable_if(simd_condition(Scalar(A.elem), Scalar(B.elem)), BatchBool(B.elem, B.n))

\* The specialization for <batch_bool<T1, N1>, batch_bool<T2, N2>>.
simd_return_type_impl_bool_bool(c, A, B) ==
    enable_if(simd_condition(Scalar(A.elem), Scalar(B.elem)), BatchBool(B.elem, B.n))

\* detail::simd_return_type_impl<T1, T2>: the most specialized match.
simd_return_type_impl(c, A, B) ==
    IF A.kind = "batch" /\ B.kind = "batch"
        THEN simd_return_type_impl_batch_batch(c, A, B)
    ELSE IF A.kind = "batch" /\ B.kind = "batch_bool"
        THEN simd_return_type_impl_batch_bool(c, A, B)
    ELSE IF A.kind = "batch_bool" /\ B.kind = "batch_bool"
        THEN simd_return_type_impl_bool_bool(c, A, B)
    ELSE simd_return_type_impl_primary(c, A, B)

\* simd_return_type<T1, T2>
simd_return_type(c, A, B) == simd_return_type_impl(c, A, B)

(***************************************************************************)
(* The types an instantiation is tried on.                                 *)
(***************************************************************************)
ScalarTypes == {Scalar(e) : e \in ScalarNames}

\* The element types batches are declared over.
BatchElems == ScalarNames \ {"bool"}

\* Every width a specialization of simd_traits yields under configuration c.
NativeWidths(c) == {simd_traits(c, T).size : T \in ScalarTypes}

\* The widths batches are declared at: the native ones and 1..MaxDeclaredWidth.
DeclaredWidths(c) == NativeWidths(c) \cup (1..MaxDeclaredWidth)

VectorTypes(c) ==
    {Batch(e, n) : e \in BatchElems, n \in DeclaredWidths(c)}
    \cup {BatchBool(e, n) : e \in BatchElems, n \in DeclaredWidths(c)}

Types(c) == ScalarTypes \cup VectorTypes(c)

\* A result not computed yet.
Pending == [type |-> NoType, size |-> 0]
PendingTraits == [type |-> NoType, bool_type |-> NoType, size |-> 0]
Unused == <<>>

(***************************************************************************)
(* SpecTraits: one instantiation of simd_traits<T1>, optionally followed   *)
(* by revert_simd_traits of its type; or revert_simd_traits<T1> directly.  *)
(***************************************************************************)
KernelUnused ==
    /\ size = 0 /\ self = Unused /\ other = Unused /\ idx = 0 /\ val = 0
    /\ mem = Unused /\ buffer = Unused /\ res = Unused /\ res2 = Unused

InitTraits ==
    /\ pc = "start"
    /\ cap \in Caps
    /\ T1 \in Types(cap)
    /\ T2 = NoType
    /\ tres = PendingTraits
    /\ rres = Pending
    /\ rtype = NoType
    /\ KernelUnused

\* simd_traits<T1>
SimdTraits ==
    /\ pc = "start"
    /\ tres' = simd_traits(cap, T1)
    /\ pc' = "simd_traits"
    /\ UNCHANGED <<cap, T1, T2, rres, rtype>>
    /\ UNCHANGED kernelVars

\* revert_simd_traits<simd_traits<T1>::type>
RevertOfSimdType ==
    /\ pc = "simd_traits"
    /\ rres' = revert_simd_traits(cap, tres.type)
    /\ pc' = "round_trip"
    /\ UNCHANGED <<cap, T1, T2, tres, rtype>>
    /\ UNCHANGED kernelVars

\* revert_simd_traits<T1>
RevertSimdTraits ==
    /\ pc = "start"
    /\ rres' = revert_simd_traits(cap, T1)
    /\ pc' = "revert_simd_traits"
    /\ UNCHANGED <<cap, T1, T2, tres, rtype>>
    /\ UNCHANGED kernelVars

NextTraits == SimdTraits \/ RevertOfSimdType \/ RevertSimdTraits

SpecTraits == InitTraits /\ [][NextTraits]_vars

(***************************************************************************)
(* SpecReturn: one instantiation of simd_return_type<T1, T2>.              *)
(***************************************************************************)
InitReturn ==
    /\ pc = "start"
    /\ cap \in Caps
    /\ T1 \in Types(cap)
    /\ T2 \in Types(cap)
    /\ tres = PendingTraits
    /\ rres = Pending
    /\ rtype = NoType
    /\ KernelUnused

\* simd_return_type<T1, T2>
SimdReturnType ==
    /\ pc = "start"
    /\ rtype' = simd_return_type(cap, T1, T2)
    /\ pc' = "simd_return_type"
    /\ UNCHANGED <<cap, T1, T2, tres, rres>>
    /\ UNCHANGED kernelVars

NextReturn == SimdReturnType

SpecReturn == InitReturn /\ [][NextReturn]_vars

(***************************************************************************)
(* Properties of the type resolution.                                      *)
(***************************************************************************)
\* The scalar types simd_traits vectorizes under configuration c.
Vectorized(c) == {T \in ScalarTypes : simd_traits(c, T).type # T}

\* V is a value of the forward map on a vectorized scalar type.
IsForwardValue(c, V) == \E T \in Vectorized(c) : simd_traits(c, T).type = V

\* C2 (as stated): simd_return_type<batch<double, W1>, batch<double, W2>>
\* with W1 # W2 has no result.
C2_MismatchedWidthFails ==
    (/\ pc = "simd_return_type"
     /\ T1.kind = "batch" /\ T2.kind = "batch"
     /\ T1.elem = "double" /\ T2.elem = "double"
     /\ T1.n # T2.n)
    => rtype = NoType

\* C2 (amended): simd_return_type<batch<double, W1>, batch<double, W2>> with
\* W1 # W2 resolves, to batch<double, W2>: the width of the first operand is
\* not compared with the second's.
C2_MismatchedWidthTakesSecond ==
    (/\ pc = "simd_return_type"
     /\ T1.kind = "batch" /\ T2.kind = "batch"
     /\ T1.elem = "double" /\ T2.elem = "double"
     /\ T1.n # T2.n)
    => rtype = Batch("double", T2.n)

C2_Witness ==
    /\ pc = "simd_return_type"
    /\ cap = "sse2"
    /\ T1 = Batch("double", 2)
    /\ T2 = Batch("double", 3)
    /\ rtype = Batch("double", 3)

\* C3: whenever simd_return_type of <batch, batch>, <batch, batch_bool> or
\* <batch_bool, batch_bool> resolves, the result has the element type and the
\* declared width N2 of the second operand (a batch for <batch, batch>, a
\* batch_bool otherwise), also when N2 is not simd_traits<T2>::size.
C3_WidthPreserved ==
    (/\ pc = "simd_return_type"
     /\ rtype # NoType
     /\ \/ T1.kind = "batch" /\ T2.kind = "batch"
        \/ T1.kind = "batch" /\ T2.kind = "batch_bool"
        \/ T1.kind = "batch_bool" /\ T2.kind = "batch_bool")
    => /\ rtype.elem = T2.elem
       /\ rtype.n = T2.n
       /\ rtype.kind = IF T1.kind = "batch" /\ T2.kind = "batch"
                       THEN "batch" ELSE "batch_bool"

C3_Witness ==
    /\ pc = "simd_return_type"
    /\ cap = "avx"
    /\ T1 = Batch("float", 8)
    /\ T2 = Batch("double", 3)
    /\ simd_traits(cap, Scalar("double")).size = 4
    /\ rtype = Batch("double", 3)

\* The first operands the promotion rule admits, as the specification lists
\* them; both int8_t and plain char count as the 8-bit signed integer.
ClaimedPromotable ==
    {Scalar(e) : e \in {"float", "double", "int64_t", "int32_t", "int8_t", "char",
                        "unsigned char", "std::complex<float>",
                        "std::complex<double>"}}

\* The pairs that the primary template of simd_return_type_impl handles.
PrimaryPair(A, B) ==
    ~ \/ A.kind = "batch" /\ B.kind = "batch"
      \/ A.kind = "batch" /\ B.kind = "batch_bool"
      \/ A.kind = "batch_bool" /\ B.kind = "batch_bool"

\* C4: simd_return_type<T1, T2> resolves exactly when T1 is T2 or T1 is one of
\* float, double, int64, int32, the 8-bit signed and unsigned integers and the
\* complex types; when it resolves, the result is simd_traits<T2>::type.
C4_PromotionRule ==
    (pc = "simd_return_type" /\ PrimaryPair(T1, T2))
    => /\ (rtype # NoType) <=> (T1 = T2 \/ T1 \in ClaimedPromotable)
       /\ rtype # NoType => rtype = simd_traits(cap, T2).type

\* C5: for every scalar type T and every configuration,
\* revert_simd_traits<simd_traits<T>::type>::type is T and its size is
\* simd_traits<T>::size.
C5_RoundTrip ==
    (pc = "round_trip" /\ T1.kind = "scalar")
    => /\ rres.type = T1
       /\ rres.size = tres.size

C5_Witness ==
    /\ pc = "round_trip"
    /\ cap = "avx"
    /\ T1 = Scalar("std::complex<float>")
    /\ tres.type = Batch("std::complex<float>", 8)
    /\ rres = [type |-> T1, size |-> 8]

\* The documented native widths: 128-bit registers at SSE2 and NEON, 256-bit
\* at AVX, 512-bit at AVX512; complex as its real component; double (and
\* complex<double>) not vectorized at ARM7 NEON; 1 for anything else.
DocumentedWidth(c, e) ==
    LET scale == CASE c \in {"sse2", "arm7_neon", "arm8_64_neon"} -> 1
                   [] c = "avx" -> 2
                   [] c = "avx512" -> 4
                   [] OTHER -> 0
    IN  IF c = "none" THEN 1
        ELSE IF e \in {"int8_t", "unsigned char"} THEN 16 * scale
        ELSE IF e \in {"int32_t", "float", "std::complex<float>"} THEN 4 * scale
        ELSE IF e \in {"int64_t"} THEN 2 * scale
        ELSE IF e \in {"double", "std::complex<double>"}
            THEN (IF c = "arm7_neon" THEN 1 ELSE 2 * scale)
        ELSE 1

\* C6: simd_traits<T>::size is the documented native width of T for the
\* configuration, and a type of width 1 that is not vectorized maps to itself.
C6_WidthTable ==
    (pc = "simd_traits" /\ T1.kind = "scalar")
    => /\ tres.size = DocumentedWidth(cap, T1.elem)
       /\ (cap = "none" \/ T1.elem \in {"char", "int16_t", "bool"}
           \/ (cap = "arm7_neon" /\ T1.elem \in {"double", "std::complex<double>"}))
          => (tres.type = T1 /\ tres.size = 1)

C6_Witness ==
    /\ pc = "simd_traits"
    /\ cap = "avx512"
    /\ T1 = Scalar("int8_t")
    /\ tres.size = 64
    /\ tres.type = Batch("int8_t", 64)

\* C10 (as stated): for a vector type that is not simd_traits<T>::type of any
\* T, revert_simd_traits has no definition.
C10_UndefinedOffTheMap ==
    (/\ pc = "revert_simd_traits"
     /\ T1.kind \in {"batch", "batch_bool"}
     /\ ~IsForwardValue(cap, T1))
    => rres.type = NoType

\* C10 (amended): revert_simd_traits is defined for every vector type.  For
\* a value simd_traits<T>::type of the forward map it yields T and
\* simd_traits<T>::size; for any other vector type V the primary template
\* applies and yields V itself, with size 1.
C10_IdentityOffTheMap ==
    (pc = "revert_simd_traits" /\ T1.kind \in {"batch", "batch_bool"})
    => IF IsForwardValue(cap, T1)
       THEN /\ rres.type.kind = "scalar"
            /\ rres.type.elem = T1.elem
            /\ rres.size = T1.n
       ELSE rres = [type |-> T1, size |-> 1]

C10_Witness ==
    /\ pc = "revert_simd_traits"
    /\ cap = "sse2"
    /\ T1 = Batch("float", 3)
    /\ ~IsForwardValue(cap, T1)
    /\ rres = [type |-> Batch("float", 3), size |-> 1]

(***************************************************************************)
(* The generic memory kernels.  A batch of n lanes is a sequence of length *)
(* n; lane k of the source (counted from 0) is element k + 1.              *)
(***************************************************************************)
\* The values a lane holds.
Values == 0..MaxVal

\* Every batch<T, A> of n lanes.
Batches(n) == [1..n -> Values]

\* A stack buffer `T b[n]` declared without an initializer: no element written.
Uninitialized(n) == [data |-> [k \in 1..n |-> 0], written |-> {}]

\* b[k] = v, k counted from 0.
Write(b, k, v) ==
    [data |-> [b.data EXCEPT ![k + 1] = v], written |-> b.written \cup {k}]

\* batch::load_aligned(b): the batches a load of buffer b may return.  An
\* element never written holds an indeterminate value.
load_aligned(b, n) ==
    {x \in Batches(n) : \A k \in b.written : x[k + 1] = b.data[k + 1]}

\* The loop of extract_pair from iteration j on:
\*   for (j = 0; j < size - i; ++j) {
\*     concat_buffer[j] = other_buffer[i + j];
\*     if (j < i) concat_buffer[size - 1 - j] = self_buffer[i - 1 - j]; }
RECURSIVE extract_pair_loop(_, _, _, _, _, _)
extract_pair_loop(self_buffer, other_buffer, i, n, j, concat_buffer) ==
    IF j < n - i
    THEN LET c1 == Write(concat_buffer, j, other_buffer[i + j + 1])
             c2 == IF j < i
                   THEN Write(c1, n - 1 - j, self_buffer[i - 1 - j + 1])
                   ELSE c1
         IN  extract_pair_loop(self_buffer, other_buffer, i, n, j + 1, c2)
    ELSE concat_buffer

\* concat_buffer of extract_pair(self, other, i) when the loop has ended.
extract_pair_buffer(s, o, i, n) ==
    extract_pair_loop(s, o, i, n, 0, Uninitialized(n))

\* kernel::extract_pair(self, other, i): the batches the call may return.
extract_pair(s, o, i, n) == load_aligned(extract_pair_buffer(s, o, i, n), n)

(***************************************************************************)
(* SpecExtract: one call of extract_pair(self, other, idx), 0 <= idx < size *)
(* as the assertion of the source requires.                                *)
(***************************************************************************)
TypesUnused ==
    /\ cap = "none" /\ T1 = NoType /\ T2 = NoType
    /\ tres = PendingTraits /\ rres = Pending /\ rtype = NoType

InitExtract ==
    /\ pc = "start"
    /\ size \in 1..MaxSize
    /\ self \in Batches(size)
    /\ other \in Batches(size)
    /\ idx \in 0..(size - 1)
    /\ val = 0 /\ mem = Unused /\ buffer = Unused /\ res = Unused /\ res2 = Unused
    /\ TypesUnused

ExtractPair ==
    /\ pc = "start"
    /\ buffer' = extract_pair_buffer(self, other, idx, size)
    /\ res' \in extract_pair(self, other, idx, size)
    /\ pc' = "extract_pair"
    /\ UNCHANGED <<size, self, other, idx, val, mem, res2>>
    /\ UNCHANGED typeVars

NextExtract == ExtractPair

SpecExtract == InitExtract /\ [][NextExtract]_vars

\* C1: for 0 <= i < W, lane k of extract_pair(self, other, i) is other[i + k]
\* when i + k < W and self[i + k - W] otherwise, for every k in 0..W-1.
C1_ExtractPairWindow ==
    pc = "extract_pair"
    => \A k \in 0..(size - 1) :
          res[k + 1] = IF idx + k < size
                       THEN other[idx + k + 1]
                       ELSE self[idx + k - size + 1]

(***************************************************************************)
(* insert.                                                                 *)
(***************************************************************************)
\* Mutant of index_mask::get: the mask selects lane I instead of the others.
index_mask_get_inverted(index, I) == index = I

\* index_mask::get(index, size) of insert<I>
index_mask_get(index, I) == index # I

\* make_batch_bool_constant<batch<T, A>, index_mask>(): lane k is get(k, size).
make_batch_bool_constant(n, I) == [k \in 1..n |-> index_mask_get(k - 1, I)]

\* batch<T, A> tmp(val): val in every lane.
broadcast(v, n) == [k \in 1..n |-> v]

\* select(cond, a, b): lane k of a where cond holds, of b elsewhere.
select(cond, a, b) == [k \in DOMAIN cond |-> IF cond[k] THEN a[k] ELSE b[k]]

\* kernel::insert(self, val, index<I>)
insert(s, v, I, n) == select(make_batch_bool_constant(n, I), s, broadcast(v, n))

(***************************************************************************)
(* store of a batch_bool.                                                  *)
(***************************************************************************)
\* The values a true lane of a batch_bool may take once it is converted to a
\* batch: every bit set (-1), or 1.
TrueLaneValues == {-1, 1}

\* batch_type(self): the batches a batch_bool may materialize as; a false
\* lane is 0, a true lane is nonzero.
batch_of_bool(b, n) ==
    {x \in [1..n -> TrueLaneValues \cup {0}] : \A k \in 1..n : (x[k] # 0) <=> b[k]}

\* Mutant of bool(buffer[i]): only the value 1 converts to true.
to_bool_only_one(x) == x = 1

\* bool(buffer[i])
to_bool(x) == x # 0

\* The loop `for (i = 0; i < size; ++i) mem[i] = bool(buffer[i])`: the bools
\* written and the indices of mem written.
store_bool_loop(buf, n) ==
    [data |-> [k \in 1..n |-> to_bool(buf[k])], written |-> 0..(n - 1)]

(***************************************************************************)
(* load_complex_aligned and store_complex_aligned.  A batch of complex is  *)
(* its two planes: [real, imag], each a batch of size lanes.               *)
(***************************************************************************)
\* a followed by b
Concat(a, b) == a \o b

\* detail::load_complex(hi, lo) of a backend: de-interleaves the 2 * size reals
\* of hi followed by lo into the real and the imaginary plane.
load_complex(hi, lo, n) ==
    [real |-> [k \in 1..n |-> Concat(hi, lo)[2 * (k - 1) + 1]],
     imag |-> [k \in 1..n |-> Concat(hi, lo)[2 * (k - 1) + 2]]]

\* The interleaved reals of a complex batch: re0, im0, re1, im1, ...
Interleaved(z, n) ==
    [m \in 1..(2 * n) |-> IF m % 2 = 1 THEN z.real[(m + 1) \div 2]
                                        ELSE z.imag[m \div 2]]

\* detail::complex_low(src) of a backend: the first size interleaved reals.
complex_low(z, n) == SubSeq(Interleaved(z, n), 1, n)

\* detail::complex_high(src) of a backend: the last size interleaved reals.
complex_high(z, n) == SubSeq(Interleaved(z, n), n + 1, 2 * n)

\* The two real batches load_complex_aligned reads: hi at buffer, lo at
\* buffer + real_batch::size.
load_complex_halves(m, n) ==
    [hi |-> SubSeq(m, 1, n), lo |-> SubSeq(m, n + 1, 2 * n)]

\* kernel::load_complex_aligned(mem)
load_complex_aligned(m, n) ==
    load_complex(load_complex_halves(m, n).hi, load_complex_halves(m, n).lo, n)

\* Mutant of store_complex_aligned: hi stored at buffer, lo at buffer + size.
store_complex_aligned_hi_first(z, n) ==
    Concat(complex_high(z, n), complex_low(z, n))

\* kernel::store_complex_aligned(dst, src): the 2 * size reals at dst after
\* lo.store_aligned(buffer); hi.store_aligned(buffer + real_batch::size).
store_complex_aligned(z, n) ==
    Concat(complex_low(z, n), complex_high(z, n))

(***************************************************************************)
(* SpecKernel: insert (once, then again on its result), the store of a     *)
(* batch_bool, and load_complex_aligned followed by store_complex_aligned. *)
(***************************************************************************)
\* The sizes of a batch of complex: the two halves interleave pairs.
ComplexSizes == {n \in 1..MaxSize : n % 2 = 0}

InitInsert ==
    /\ pc = "call insert"
    /\ size \in 1..MaxSize
    /\ self \in Batches(size)
    /\ idx \in 0..(size - 1)
    /\ val \in Values
    /\ other = Unused /\ mem = Unused /\ buffer = Unused
    /\ res = Unused /\ res2 = Unused

InitStore ==
    /\ pc = "call store"
    /\ size \in 1..MaxSize
    /\ self \in [1..size -> BOOLEAN]
    /\ idx = 0 /\ val = 0
    /\ other = Unused /\ mem = Unused /\ buffer = Unused
    /\ res = Unused /\ res2 = Unused

InitComplex ==
    /\ pc = "call load_complex_aligned"
    /\ size \in ComplexSizes
    /\ mem \in [1..(2 * size) -> Values]
    /\ idx = 0 /\ val = 0
    /\ self = Unused /\ other = Unused /\ buffer = Unused
    /\ res = Unused /\ res2 = Unused

InitKernel ==
    /\ InitInsert \/ InitStore \/ InitComplex
    /\ TypesUnused

\* insert(self, val, index<idx>)
Insert ==
    /\ pc = "call insert"
    /\ res' = insert(self, val, idx, size)
    /\ pc' = "insert"
    /\ UNCHANGED <<size, self, other, idx, val, mem, buffer, res2>>
    /\ UNCHANGED typeVars

\* insert(res, val, index<idx>) on the result of the first insert
InsertAgain ==
    /\ pc = "insert"
    /\ res2' = insert(res, val, idx, size)
    /\ pc' = "insert insert"
    /\ UNCHANGED <<size, self, other, idx, val, mem, buffer, res>>
    /\ UNCHANGED typeVars

\* store(self, mem) of the batch_bool self
StoreBool ==
    /\ pc = "call store"
    /\ \E b \in batch_of_bool(self, size) :
          /\ buffer' = b
          /\ res' = store_bool_loop(b, size)
    /\ pc' = "store"
    /\ UNCHANGED <<size, self, other, idx, val, mem, res2>>
    /\ UNCHANGED typeVars

\* load_complex_aligned(mem)
LoadComplexAligned ==
    /\ pc = "call load_complex_aligned"
    /\ buffer' = load_complex_halves(mem, size)
    /\ res' = load_complex_aligned(mem, size)
    /\ pc' = "load_complex_aligned"
    /\ UNCHANGED <<size, self, other, idx, val, mem, res2>>
    /\ UNCHANGED typeVars

\* store_complex_aligned(buf, res)
StoreComplexAligned ==
    /\ pc = "load_complex_aligned"
    /\ res2' = store_complex_aligned(res, size)
    /\ pc' = "store_complex_aligned"
    /\ UNCHANGED <<size, self, other, idx, val, mem, buffer, res>>
    /\ UNCHANGED typeVars

NextKernel ==
    \/ Insert
    \/ InsertAgain
    \/ StoreBool
    \/ LoadComplexAligned
    \/ StoreComplexAligned

SpecKernel == InitKernel /\ [][NextKernel]_vars

\* C7: store_complex_aligned(buf, load_complex_aligned(src)) leaves buf equal
\* to src: load passes the first size reals as the first argument of
\* load_complex and the next size reals as the second, and store writes them
\* back at the same offsets.
C7_ComplexRoundTrip ==
    /\ pc \in {"load_complex_aligned", "store_complex_aligned"}
       => /\ buffer.hi = SubSeq(mem, 1, size)
          /\ buffer.lo = SubSeq(mem, size + 1, 2 * size)
    /\ pc = "store_complex_aligned"
       => /\ Len(res2) = 2 * size
          /\ \A m \in 1..(2 * size) : res2[m] = mem[m]

C7_Witness ==
    /\ pc = "store_complex_aligned"
    /\ size = 2
    /\ mem = <<0, 1, 1, 1>>
    /\ res = [real |-> <<0, 1>>, imag |-> <<1, 1>>]
    /\ res2 = <<0, 1, 1, 1>>

\* C8: the store of a batch_bool writes exactly size bools, mem[k] true when
\* lane k is true and false when it is false, whatever nonzero value a true
\* lane materializes as.
C8_BoolStore ==
    pc = "store"
    => /\ res.written = 0..(size - 1)
       /\ \A k \in 0..(size - 1) : res.data[k + 1] = self[k + 1]

C8_Witness ==
    /\ pc = "store"
    /\ size = 2
    /\ self = <<TRUE, FALSE>>
    /\ buffer = <<-1, 0>>
    /\ res.data = <<TRUE, FALSE>>

\* C9: insert(b, v, I) has lane I equal to v and every other lane equal to
\* that lane of b; inserting the same value again changes nothing, and
\* inserting b.get(I) at I returns b.
C9_Insert ==
    /\ pc \in {"insert", "insert insert"}
       => /\ res[idx + 1] = val
          /\ \A k \in 0..(size - 1) : k # idx => res[k + 1] = self[k + 1]
          /\ val = self[idx + 1] => res = self
    /\ pc = "insert insert" => res2 = res

C9_Witness ==
    /\ pc = "insert insert"
    /\ size = 3
    /\ self = <<0, 0, 0>>
    /\ idx = 1
    /\ val = 1
    /\ res = <<0, 1, 0>>
    /\ res2 = <<0, 1, 0>>

(***************************************************************************)
(* load_aligned and load_unaligned with a slow conversion.  A value of an  *)
(* integer type is the integer; a value of float is held as its number of  *)
(* halves (3 is 1.5), so that a conversion to an integer has a fraction to *)
(* discard.                                                                *)
(***************************************************************************)
\* The (T_in, T_out) pairs loaded; T_in # T_out as the static_assert requires.
ConversionPairs ==
    {<<"int32_t", "unsigned char">>, <<"int32_t", "int8_t">>,
     <<"int32_t", "int64_t">>, <<"int32_t", "float">>, <<"float", "int32_t">>}

\* The values of T_in the memory holds: negative, small and, for int32_t, one
\* beyond the range of the 8-bit types.
InValues(Tin) ==
    IF Tin = "float" THEN {-3, 3} \cup (0..MaxVal)
    ELSE {-1, 257} \cup (0..MaxVal)

\* x rounded toward zero to a multiple of d, divided by d.
TruncDiv(x, d) == IF x >= 0 THEN x \div d ELSE -((-x) \div d)

\* T_out(x) for x of type T_in: the conversion the assignment of std::copy
\* applies to each element.
scalar_convert(Tin, Tout, x) ==
    IF Tin = "float" /\ Tout = "int32_t" THEN TruncDiv(x, 2)
    ELSE IF Tout = "float" THEN 2 * x
    ELSE IF Tout = "unsigned char" THEN x % 256
    ELSE IF Tout = "int8_t" THEN ((x + 128) % 256) - 128
    ELSE x

\* The values of T_out a lane can hold.
OutValues(Tout) ==
    {scalar_convert(p[1], p[2], x) :
        p \in {q \in ConversionPairs : q[2] = Tout}, x \in InValues("int32_t")}
    \cup {scalar_convert("float", Tout, x) : x \in InValues("float")}

\* std::copy(first, last, out) from element k on: out[k] = T_out(first[k]).
RECURSIVE std_copy(_, _, _, _, _, _)
std_copy(m, Tin, Tout, k, last, out) ==
    IF k < last
    THEN std_copy(m, Tin, Tout, k + 1, last,
                  Write(out, k, scalar_convert(Tin, Tout, m[k + 1])))
    ELSE out

\* Mutant of the buffer of the slow load: the copy stops one element early.
load_aligned_slow_buffer_short(m, Tin, Tout, n) ==
    std_copy(m, Tin, Tout, 0, n - 1, Uninitialized(n))

\* detail::load_aligned(mem, convert<T_out>, generic, with_slow_conversion):
\* buffer after std::copy(mem, mem + batch_type_out::size, std::begin(buffer)).
load_aligned_slow_buffer(m, Tin, Tout, n) ==
    std_copy(m, Tin, Tout, 0, n, Uninitialized(n))

\* batch_type_out::load_aligned(buffer): the batches the load may return; an
\* element never written holds an indeterminate value of T_out.
batch_load_aligned(b, n, Tout) ==
    LET unwritten == {k \in 0..(n - 1) : k \notin b.written}
    IN  {[k \in 1..n |-> IF (k - 1) \in b.written THEN b.data[k] ELSE f[k - 1]] :
            f \in [unwritten -> OutValues(Tout)]}

\* detail::load_aligned(mem, convert<T_out>, generic, with_slow_conversion)
detail_load_aligned_slow(m, Tin, Tout, n) ==
    batch_load_aligned(load_aligned_slow_buffer(m, Tin, Tout, n), n, Tout)

\* detail::load_unaligned(mem, cvt, generic, with_slow_conversion)
detail_load_unaligned_slow(m, Tin, Tout, n) ==
    detail_load_aligned_slow(m, Tin, Tout, n)

(***************************************************************************)
(* SpecLoad: load_aligned and then load_unaligned of the same memory, both *)
(* dispatched to the slow conversion from T1 to T2.                        *)
(***************************************************************************)
InitLoad ==
    /\ pc = "call load_aligned"
    /\ \E p \in ConversionPairs : T1 = Scalar(p[1]) /\ T2 = Scalar(p[2])
    /\ size \in 1..MaxSize
    /\ mem \in [1..size -> InValues(T1.elem)]
    /\ cap = "none" /\ tres = PendingTraits /\ rres = Pending /\ rtype = NoType
    /\ idx = 0 /\ val = 0
    /\ self = Unused /\ other = Unused /\ buffer = Unused
    /\ res = Unused /\ res2 = Unused

\* load_aligned(mem, convert<T2>) through the slow conversion
LoadAlignedSlow ==
    /\ pc = "call load_aligned"
    /\ buffer' = load_aligned_slow_buffer(mem, T1.elem, T2.elem, size)
    /\ res' \in detail_load_aligned_slow(mem, T1.elem, T2.elem, size)
    /\ pc' = "load_aligned"
    /\ UNCHANGED <<size, self, other, idx, val, mem, res2>>
    /\ UNCHANGED typeVars

\* load_unaligned(mem, convert<T2>) through the slow conversion
LoadUnalignedSlow ==
    /\ pc = "load_aligned"
    /\ res2' \in detail_load_unaligned_slow(mem, T1.elem, T2.elem, size)
    /\ pc' = "load_unaligned"
    /\ UNCHANGED <<size, self, other, idx, val, mem, buffer, res>>
    /\ UNCHANGED typeVars

NextLoad == LoadAlignedSlow \/ LoadUnalignedSlow

SpecLoad == InitLoad /\ [][NextLoad]_vars

\* The value the language gives T_out(x), written out per pair: int32_t to
\* unsigned char is modulo 256, to int8_t wraps into -128..127, to int64_t
\* keeps the value, to float is exact; float to int32_t discards the fraction.
ExpectedConversion(Tin, Tout, x) ==
    CASE Tin = "int32_t" /\ Tout = "unsigned char" ->
             CHOOSE y \in 0..255 : \E q \in -2..2 : x = y + 256 * q
      [] Tin = "int32_t" /\ Tout = "int8_t" ->
             CHOOSE y \in -128..127 : \E q \in -2..2 : x = y + 256 * q
      [] Tin = "int32_t" /\ Tout = "int64_t" -> x
      [] Tin = "int32_t" /\ Tout = "float" -> x + x
      [] Tin = "float" /\ Tout = "int32_t" ->
             CHOOSE y \in -4..4 : \/ x >= 0 /\ 2 * y <= x /\ x < 2 * y + 2
                                  \/ x < 0 /\ 2 * y >= x /\ x > 2 * y - 2

\* C11: with T_out different from T_in, the slow paths of load_aligned and of
\* load_unaligned return a batch whose lane k is the scalar conversion of
\* mem[k] to T_out, for every k in 0..W-1, and so return the same batch for
\* the same memory.
C11_SlowLoad ==
    /\ pc \in {"load_aligned", "load_unaligned"}
       => /\ Len(res) = size
          /\ \A k \in 0..(size - 1) :
                res[k + 1] = ExpectedConversion(T1.elem, T2.elem, mem[k + 1])
    /\ pc = "load_unaligned"
       => /\ \A k \in 0..(size - 1) :
                res2[k + 1] = ExpectedConversion(T1.elem, T2.elem, mem[k + 1])
          /\ res2 = res

C11_Witness ==
    /\ pc = "load_unaligned"
    /\ T1 = Scalar("int32_t")
    /\ T2 = Scalar("unsigned char")
    /\ size = 3
    /\ mem = <<-1, 257, 0>>
    /\ res = <<255, 1, 0>>
    /\ res2 = <<255, 1, 0>>

=============================================================================
